---- MODULE Spec2Model ----
(***************************************************************************)
(* Model of UpdateWorkflowHandler.execute (src/tools/workflow/update.ts):  *)
(* the update_workflow tool validates its arguments, fetches the stored    *)
(* workflow, builds an update payload, submits it and summarises the       *)
(* changes.  Several invocations may be in flight against one workflow.    *)
(***************************************************************************)
EXTENDS Integers, Sequences, FiniteSets, TLC

\* ---------------------------------------------------------------- bounds
NumInv == 2        \* invocations that may be in flight (ConcSpec)
NumNames == 2      \* distinct workflow names the caller may supply

Inv == 1..NumInv

\* ------------------------------------------------------ JavaScript values
\* A value is a record: t is its kind, v its string form (String(x)).
Undefined == [t |-> "undefined", v |-> "undefined"]
Null == [t |-> "null", v |-> "null"]
Str(s) == [t |-> "string", v |-> s]
Num(s) == [t |-> "number", v |-> s]
Bool(s) == [t |-> "boolean", v |-> s]
\* arrays and objects are opaque; v labels the contents ("" is the empty one)
Arr(s) == [t |-> "array", v |-> s]
Obj(s) == [t |-> "object", v |-> s]

\* JavaScript ToBoolean
Truthy(x) ==
  CASE x.t \in {"undefined", "null"} -> FALSE
    [] x.t = "string" -> x.v # ""
    [] x.t = "number" -> x.v \notin {"0", "NaN"}
    [] x.t = "boolean" -> x.v = "true"
    [] OTHER -> TRUE

\* Array.isArray
IsArray(x) == x.t = "array"

\* the typeof operator
TypeOf(x) ==
  CASE x.t \in {"null", "array", "object"} -> "object"
    [] OTHER -> x.t

\* string conversion inside a template literal
ToStr(x) ==
  CASE x.t = "object" -> "[object Object]"
    [] x.t = "array" -> (IF x.v = "" THEN "" ELSE "[object Object]")
    [] OTHER -> x.v

\* the !== operator: objects and arrays compare by reference, and a value
\* of the caller is never the same reference as a fetched one
StrictNotEqual(a, b) == a.t \in {"object", "array"} \/ a # b

\* property read: a missing key reads as undefined
Field(w, k) == IF k \in DOMAIN w THEN w[k] ELSE Undefined

\* --------------------------------------------------------------- domains
UpdateFields == <<"name", "nodes", "connections", "settings", "staticData">>
FieldSet == {UpdateFields[n] : n \in 1..Len(UpdateFields)}
ArgKeys == {"workflowId", "active"} \cup FieldSet

NameOf == <<"A", "B", "C", "D">>
Names == {NameOf[n] : n \in 1..NumNames}

IdValues == {Undefined, Str(""), Str("wf1")}
NameValues == {Undefined} \cup {Str(s) : s \in Names}
NodesValues == {Undefined, Arr("n1"), Obj("n1"), Str("x"), Num("0"), Str("")}
ConnectionsValues == {Undefined, Obj("c1"), Arr(""), Str("x"), Num("0"), Null}
SettingsValues == {Undefined, Obj("s1")}
StaticDataValues == {Undefined, Obj("d1")}
\* a key the tool does not recognise
ActiveValues == {Undefined, Bool("true")}

\* an argument object holds only the keys the caller supplied
Supplied(r) == [k \in {f \in DOMAIN r : r[f] # Undefined} |-> r[k]]

Requests ==
  {Supplied(r) : r \in [workflowId : IdValues, name : NameValues,
                        nodes : NodesValues, connections : ConnectionsValues,
                        settings : SettingsValues,
                        staticData : StaticDataValues,
                        active : ActiveValues]}

\* the requests of the concurrent scenario: all pass validation
ConcRequests ==
  { [workflowId |-> Str("wf1")],
    [workflowId |-> Str("wf1"), name |-> Str("B")],
    [workflowId |-> Str("wf1"), nodes |-> Arr("n2")],
    [workflowId |-> Str("wf1"), staticData |-> Obj("d1")],
    [workflowId |-> Str("wf1"), name |-> Str("B"), nodes |-> Arr("n2")] }

\* workflows the remote system may hold when the tool is first called
StoredWorkflows ==
  { [id |-> Str("wf1"), active |-> Bool("false"), name |-> Str("A"),
     nodes |-> Arr("n1"), connections |-> Obj("c1"),
     settings |-> Obj("s1"), staticData |-> Null],
    [id |-> Str("wf1"), active |-> Bool("true"), name |-> Str("B"),
     nodes |-> Arr("n2"), connections |-> Obj("c2")],
    [id |-> Str("wf1"), active |-> Bool("false")] }

RemoteErrors == {"Request failed with status code 404",
                 "Request failed with status code 500"}

NoValue == <<>>

\* ------------------------------------------------------------ the handler
MissingWorkflowId == "Missing required parameter: workflowId"
NodesNotArray == "Parameter \"nodes\" must be an array"
ConnectionsNotObject == "Parameter \"connections\" must be an object"
ValidationErrors == {MissingWorkflowId, NodesNotArray, ConnectionsNotObject}
NoError == ""

\* variant: the identifier is not checked
ValidationErrorNoIdCheck(a) ==
  IF Truthy(Field(a, "nodes")) /\ ~IsArray(Field(a, "nodes"))
    THEN NodesNotArray
  ELSE IF Truthy(Field(a, "connections"))
          /\ TypeOf(Field(a, "connections")) # "object"
    THEN ConnectionsNotObject
  ELSE NoError

\* the three argument checks, in order; NoError when all pass
ValidationError(a) ==
  IF ~Truthy(Field(a, "workflowId")) THEN MissingWorkflowId
  ELSE IF Truthy(Field(a, "nodes")) /\ ~IsArray(Field(a, "nodes"))
    THEN NodesNotArray
  ELSE IF Truthy(Field(a, "connections"))
          /\ TypeOf(Field(a, "connections")) # "object"
    THEN ConnectionsNotObject
  ELSE NoError

\* variant: the payload is the fetched workflow overlaid with the arguments
BuildPayloadSpread(a, w) ==
  [k \in (DOMAIN w \cup DOMAIN a) \ {"workflowId"}
     |-> IF k \in DOMAIN a THEN a[k] ELSE w[k]]

\* variant: the payload holds the supplied fields only
BuildPayloadSuppliedOnly(a, w) ==
  [k \in {f \in FieldSet : Field(a, f) # Undefined} |-> Field(a, k)]

\* workflowData: built from scratch, one allowed field at a time
BuildPayload(a, w) ==
  [k \in {f \in FieldSet : Field(a, f) # Undefined \/ Field(w, f) # Undefined}
     |-> IF Field(a, k) # Undefined THEN Field(a, k) ELSE Field(w, k)]

\* variant: "nodes updated" only when the nodes differ from the stored ones
ChangesDeepEqual(a, w) ==
  (IF Field(a, "name") # Undefined
      /\ StrictNotEqual(Field(a, "name"), Field(w, "name"))
   THEN <<"name: \"" \o ToStr(Field(w, "name")) \o "\" -> \""
          \o ToStr(Field(a, "name")) \o "\"">>
   ELSE <<>>)
  \o (IF Field(a, "nodes") # Undefined /\ Field(a, "nodes") # Field(w, "nodes")
      THEN <<"nodes updated">> ELSE <<>>)
  \o (IF Field(a, "connections") # Undefined
      THEN <<"connections updated">> ELSE <<>>)
  \o (IF Field(a, "settings") # Undefined
      THEN <<"settings updated">> ELSE <<>>)
  \o (IF Field(a, "staticData") # Undefined
      THEN <<"staticData updated">> ELSE <<>>)

\* changesArray
Changes(a, w) ==
  (IF Field(a, "name") # Undefined
      /\ StrictNotEqual(Field(a, "name"), Field(w, "name"))
   THEN <<"name: \"" \o ToStr(Field(w, "name")) \o "\" -> \""
          \o ToStr(Field(a, "name")) \o "\"">>
   ELSE <<>>)
  \o (IF Field(a, "nodes") # Undefined THEN <<"nodes updated">> ELSE <<>>)
  \o (IF Field(a, "connections") # Undefined
      THEN <<"connections updated">> ELSE <<>>)
  \o (IF Field(a, "settings") # Undefined
      THEN <<"settings updated">> ELSE <<>>)
  \o (IF Field(a, "staticData") # Undefined
      THEN <<"staticData updated">> ELSE <<>>)

RECURSIVE Join(_, _)
Join(s, sep) ==
  IF Len(s) = 0 THEN ""
  ELSE IF Len(s) = 1 THEN s[1]
  ELSE s[1] \o sep \o Join(Tail(s), sep)

\* variant: the list is joined also when it is empty
ChangesSummaryAlways(ch) == "Changes: " \o Join(ch, ", ")

ChangesSummary(ch) ==
  IF Len(ch) > 0 THEN "Changes: " \o Join(ch, ", ")
  ELSE "No changes were made"

SuccessMessage(ch) == "Workflow updated successfully. " \o ChangesSummary(ch)

\* ----------------------------------------------------- collaborators
\* the tool framework: a success result, and a thrown error as a failure
formatSuccess(data, message) ==
  [isError |-> FALSE, data |-> data, text |-> message]
handleExecution(message) == [isError |-> TRUE, text |-> message]

\* the remote update endpoint replaces the five fields by the payload
updateWorkflow(stored, payload) ==
  [k \in (DOMAIN stored \ FieldSet) \cup DOMAIN payload
     |-> IF k \in DOMAIN payload THEN payload[k] ELSE stored[k]]

\* ------------------------------------------------------------------ state
VARIABLES
  pc,               \* per invocation: idle, awaitGet, awaitUpdate, threw, returned
  args,             \* the argument object of the invocation
  currentWorkflow,  \* what getWorkflow returned
  workflowData,     \* the payload passed to updateWorkflow
  changesArray,     \* the change summary entries
  error,            \* message of the error the invocation threw
  rejected,         \* message of the error apiService rejected with
  result,           \* the tool call result handed back to the caller
  getCalls,         \* calls of apiService.getWorkflow made by the invocation
  updateCalls,      \* calls of apiService.updateWorkflow made by the invocation
  store,            \* the workflow held by the remote system
  version,          \* number of writes the remote system has applied
  seen,             \* version of the store the invocation fetched
  lastWriter        \* invocation whose write was applied last (0: none)

vars == <<pc, args, currentWorkflow, workflowData, changesArray, error,
          rejected, result, getCalls, updateCalls, store, version, seen, lastWriter>>

Init ==
  /\ pc = [i \in Inv |-> "idle"]
  /\ args = [i \in Inv |-> NoValue]
  /\ currentWorkflow = [i \in Inv |-> NoValue]
  /\ workflowData = [i \in Inv |-> NoValue]
  /\ changesArray = [i \in Inv |-> <<>>]
  /\ error = [i \in Inv |-> NoError]
  /\ rejected = [i \in Inv |-> NoError]
  /\ result = [i \in Inv |-> NoValue]
  /\ getCalls = [i \in Inv |-> 0]
  /\ updateCalls = [i \in Inv |-> 0]
  /\ store \in StoredWorkflows
  /\ version = 0
  /\ seen = [i \in Inv |-> 0]
  /\ lastWriter = 0

\* the invocation throws: handleExecution turns the error into a result
Throw(i, message) ==
  /\ pc' = [pc EXCEPT ![i] = "threw"]
  /\ error' = [error EXCEPT ![i] = message]
  /\ result' = [result EXCEPT ![i] = handleExecution(message)]

\* execute(args) up to the call of getWorkflow
Execute(i, a) ==
  /\ pc[i] = "idle"
  /\ args' = [args EXCEPT ![i] = a]
  /\ IF ValidationError(a) # NoError
     THEN /\ Throw(i, ValidationError(a))
          /\ UNCHANGED getCalls
     ELSE /\ pc' = [pc EXCEPT ![i] = "awaitGet"]
          /\ getCalls' = [getCalls EXCEPT ![i] = @ + 1]
          /\ UNCHANGED <<error, result>>
  /\ UNCHANGED <<currentWorkflow, workflowData, changesArray, rejected,
                 updateCalls, store, version, seen, lastWriter>>

\* getWorkflow resolves: build the payload and call updateWorkflow
GetWorkflowOk(i) ==
  /\ pc[i] = "awaitGet"
  /\ Field(args[i], "workflowId") = store.id
  /\ currentWorkflow' = [currentWorkflow EXCEPT ![i] = store]
  /\ seen' = [seen EXCEPT ![i] = version]
  /\ workflowData' = [workflowData EXCEPT ![i] = BuildPayload(args[i], store)]
  /\ updateCalls' = [updateCalls EXCEPT ![i] = @ + 1]
  /\ pc' = [pc EXCEPT ![i] = "awaitUpdate"]
  /\ UNCHANGED <<args, changesArray, error, rejected, result, getCalls, store,
                 version, lastWriter>>

\* variant: a rejected getWorkflow is called once more
GetWorkflowFailRetry(i, e) ==
  /\ pc[i] = "awaitGet"
  /\ rejected' = [rejected EXCEPT ![i] = e]
  /\ IF getCalls[i] < 2
     THEN /\ getCalls' = [getCalls EXCEPT ![i] = @ + 1]
          /\ UNCHANGED <<pc, error, result>>
     ELSE /\ Throw(i, e)
          /\ UNCHANGED getCalls
  /\ UNCHANGED <<args, currentWorkflow, workflowData, changesArray,
                 updateCalls, store, version, seen, lastWriter>>

\* getWorkflow rejects: the error leaves the handler
GetWorkflowFail(i, e) ==
  /\ pc[i] = "awaitGet"
  /\ rejected' = [rejected EXCEPT ![i] = e]
  /\ Throw(i, e)
  /\ UNCHANGED <<args, currentWorkflow, workflowData, changesArray, getCalls,
                 updateCalls, store, version, seen, lastWriter>>

\* variant: the write waits until the store is the one that was fetched
UpdateWorkflowOkVersionChecked(i) ==
  /\ pc[i] = "awaitUpdate"
  /\ seen[i] = version
  /\ store' = updateWorkflow(store, workflowData[i])
  /\ version' = version + 1
  /\ lastWriter' = i
  /\ changesArray' = [changesArray EXCEPT
                        ![i] = Changes(args[i], currentWorkflow[i])]
  /\ result' = [result EXCEPT ![i] =
       formatSuccess([id |-> Field(store', "id"),
                      name |-> Field(store', "name"),
                      active |-> Field(store', "active")],
                     SuccessMessage(changesArray'[i]))]
  /\ pc' = [pc EXCEPT ![i] = "returned"]
  /\ UNCHANGED <<args, currentWorkflow, workflowData, error, rejected,
                 getCalls, updateCalls, seen>>

\* updateWorkflow resolves: the write is applied, the summary is built
UpdateWorkflowOk(i) ==
  /\ pc[i] = "awaitUpdate"
  /\ store' = updateWorkflow(store, workflowData[i])
  /\ version' = version + 1
  /\ lastWriter' = i
  /\ changesArray' = [changesArray EXCEPT
                        ![i] = Changes(args[i], currentWorkflow[i])]
  /\ result' = [result EXCEPT ![i] =
       formatSuccess([id |-> Field(store', "id"),
                      name |-> Field(store', "name"),
                      active |-> Field(store', "active")],
                     SuccessMessage(changesArray'[i]))]
  /\ pc' = [pc EXCEPT ![i] = "returned"]
  /\ UNCHANGED <<args, currentWorkflow, workflowData, error, rejected,
                 getCalls, updateCalls, seen>>

\* variant: a rejected updateWorkflow is called once more
UpdateWorkflowFailRetry(i, e) ==
  /\ pc[i] = "awaitUpdate"
  /\ rejected' = [rejected EXCEPT ![i] = e]
  /\ IF updateCalls[i] < 2
     THEN /\ updateCalls' = [updateCalls EXCEPT ![i] = @ + 1]
          /\ UNCHANGED <<pc, error, result>>
     ELSE /\ Throw(i, e)
          /\ UNCHANGED updateCalls
  /\ UNCHANGED <<args, currentWorkflow, workflowData, changesArray, getCalls,
                 store, version, seen, lastWriter>>

\* updateWorkflow rejects: the error leaves the handler
UpdateWorkflowFail(i, e) ==
  /\ pc[i] = "awaitUpdate"
  /\ rejected' = [rejected EXCEPT ![i] = e]
  /\ Throw(i, e)
  /\ UNCHANGED <<args, currentWorkflow, workflowData, changesArray, getCalls,
                 updateCalls, store, version, seen, lastWriter>>

\* one invocation, any argument object
Next ==
  \/ pc[1] = "idle" /\ \E a \in Requests : Execute(1, a)
  \/ GetWorkflowOk(1)
  \/ \E e \in RemoteErrors : GetWorkflowFail(1, e)
  \/ UpdateWorkflowOk(1)
  \/ \E e \in RemoteErrors : UpdateWorkflowFail(1, e)

Spec == Init /\ [][Next]_vars

\* concurrent invocations on the same workflow identifier
ConcNext ==
  \E i \in Inv :
    \/ pc[i] = "idle" /\ \E a \in ConcRequests : Execute(i, a)
    \/ GetWorkflowOk(i)
    \/ \E e \in RemoteErrors : GetWorkflowFail(i, e)
    \/ UpdateWorkflowOk(i)
    \/ \E e \in RemoteErrors : UpdateWorkflowFail(i, e)

ConcSpec == Init /\ [][ConcNext]_vars

\* ----------------------------------------------------------- properties
Range(q) == {q[n] : n \in 1..Len(q)}
Started(i) == pc[i] # "idle"
ValidationFailure(i) ==
  /\ pc[i] = "threw"
  /\ error[i] \in ValidationErrors
  /\ getCalls[i] = 0
  /\ updateCalls[i] = 0

\* C1: a request without workflowId ends in the missing-identifier
\* validation failure, and neither getWorkflow nor updateWorkflow is called.
C1_MissingIdFailsLocally ==
  \A i \in Inv :
    (Started(i) /\ "workflowId" \notin DOMAIN args[i])
      => ValidationFailure(i) /\ error[i] = MissingWorkflowId

C1_Witness ==
  \E i \in Inv :
    /\ Started(i)
    /\ "workflowId" \notin DOMAIN args[i]
    /\ {"name", "nodes"} \subseteq DOMAIN args[i]
    /\ pc[i] = "threw"

\* C2: a request with a workflowId whose nodes is present and not an array,
\* whatever the value, ends in a validation failure with no remote call.
C2_NonArrayNodesRejected ==
  \A i \in Inv :
    (/\ Started(i)
     /\ "workflowId" \in DOMAIN args[i]
     /\ "nodes" \in DOMAIN args[i]
     /\ ~IsArray(args[i].nodes))
      => ValidationFailure(i)

\* C3: a request with a workflowId and valid nodes whose connections is
\* present and not a key-value mapping (an array included) ends in a
\* validation failure with no remote call.
C3_NonMappingConnectionsRejected ==
  \A i \in Inv :
    (/\ Started(i)
     /\ "workflowId" \in DOMAIN args[i]
     /\ ("nodes" \in DOMAIN args[i] => IsArray(args[i].nodes))
     /\ "connections" \in DOMAIN args[i]
     /\ args[i].connections.t # "object")
      => ValidationFailure(i)

\* C4: the payload passed to updateWorkflow holds, for each of the five
\* fields, the supplied value, else the fetched value, else nothing, and
\* holds no other key.
C4_PayloadIsMerge ==
  \A i \in Inv :
    updateCalls[i] > 0 =>
      LET p == workflowData[i]
          a == args[i]
          w == currentWorkflow[i]
      IN /\ DOMAIN p \subseteq FieldSet
         /\ \A k \in FieldSet :
              IF k \in DOMAIN a THEN k \in DOMAIN p /\ p[k] = a[k]
              ELSE IF k \in DOMAIN w THEN k \in DOMAIN p /\ p[k] = w[k]
              ELSE k \notin DOMAIN p

C4_Witness ==
  \E i \in Inv :
    /\ updateCalls[i] > 0
    /\ "name" \in DOMAIN args[i]
    /\ args[i].name # Field(currentWorkflow[i], "name")
    /\ "nodes" \notin DOMAIN args[i]
    /\ "nodes" \in DOMAIN currentWorkflow[i]
    /\ "settings" \notin DOMAIN args[i] \cup DOMAIN currentWorkflow[i]
    /\ "active" \in DOMAIN args[i]

GetFailed(i) ==
  pc[i] = "threw" /\ rejected[i] # NoError /\ updateCalls[i] = 0

\* C5: when getWorkflow fails, updateWorkflow is never called, getWorkflow
\* is not called again, the invocation fails with the fetch error itself,
\* and no change summary or success result is produced.
C5_FetchFailurePropagates ==
  \A i \in Inv :
    /\ (rejected[i] # NoError /\ currentWorkflow[i] = NoValue)
         => /\ pc[i] = "threw"
            /\ error[i] = rejected[i]
            /\ getCalls[i] = 1
            /\ updateCalls[i] = 0
            /\ changesArray[i] = <<>>
            /\ workflowData[i] = NoValue

C5_Witness ==
  \E i \in Inv :
    /\ GetFailed(i)
    /\ currentWorkflow[i] = NoValue
    /\ error[i] \in RemoteErrors
    /\ DOMAIN args[i] \cap FieldSet # {}

FourFields == FieldSet \ {"name"}
NameChanged(i) ==
  /\ "name" \in DOMAIN args[i]
  /\ args[i].name # Field(currentWorkflow[i], "name")
NameEntry(i) ==
  "name: \"" \o Field(currentWorkflow[i], "name").v \o "\" -> \""
    \o Field(args[i], "name").v \o "\""

\* C6: after a successful invocation the change summary holds the name
\* entry iff name was supplied and differs from the fetched name, holds
\* "<field> updated" for each other field iff that field was supplied
\* (also when equal to the stored value), and nothing else.
C6_SummaryEntries ==
  \A i \in Inv :
    pc[i] = "returned" =>
      LET ch == changesArray[i]
      IN /\ NameChanged(i) <=> NameEntry(i) \in Range(ch)
         /\ \A f \in FourFields :
              f \in DOMAIN args[i] <=> (f \o " updated") \in Range(ch)
         /\ Len(ch) = Cardinality(FourFields \cap DOMAIN args[i])
                        + (IF NameChanged(i) THEN 1 ELSE 0)

C6_Witness ==
  \E i \in Inv :
    /\ pc[i] = "returned"
    /\ "nodes" \in DOMAIN args[i]
    /\ args[i].nodes = Field(currentWorkflow[i], "nodes")
    /\ "nodes updated" \in Range(changesArray[i])
    /\ NameChanged(i)
    /\ "settings" \notin DOMAIN args[i]

NoFieldSupplied(i) == DOMAIN args[i] \cap FieldSet = {}

\* C7: a successful invocation that supplied none of the five fields passed
\* the fetched workflow's own five fields as payload, made the remote write,
\* and reports "No changes were made".
C7_NoFieldsNoChanges ==
  \A i \in Inv :
    (pc[i] = "returned" /\ NoFieldSupplied(i)) =>
      /\ workflowData[i] =
           [k \in DOMAIN currentWorkflow[i] \cap FieldSet
              |-> currentWorkflow[i][k]]
      /\ ChangesSummary(changesArray[i]) = "No changes were made"
      /\ updateCalls[i] = 1
      /\ version >= 1

C7_Witness ==
  \E i \in Inv :
    /\ pc[i] = "returned"
    /\ NoFieldSupplied(i)
    /\ Field(currentWorkflow[i], "name") = Str("A")
    /\ workflowData[i].name = Str("A")

\* C8: an invocation calls getWorkflow at most once and updateWorkflow at
\* most once, the latter only after getWorkflow returned; a success has
\* made exactly one read and one write; a failed updateWorkflow ends the
\* invocation in that failure, with no retry and no success result.
C8_OneReadThenOneWrite ==
  \A i \in Inv :
    /\ getCalls[i] <= 1
    /\ updateCalls[i] <= 1
    /\ updateCalls[i] > 0 => getCalls[i] = 1 /\ currentWorkflow[i] # NoValue
    /\ pc[i] = "returned" => getCalls[i] = 1 /\ updateCalls[i] = 1
    /\ (rejected[i] # NoError /\ currentWorkflow[i] # NoValue)
         => /\ pc[i] = "threw"
            /\ error[i] = rejected[i]
            /\ changesArray[i] = <<>>

C8_Witness ==
  \E i \in Inv :
    /\ pc[i] = "threw"
    /\ updateCalls[i] = 1
    /\ error[i] \in RemoteErrors

FiveFields(w) == [k \in DOMAIN w \cap FieldSet |-> w[k]]

\* C9: the five fields of the stored workflow are the payload of the
\* invocation whose write was applied last, and an invocation waiting for
\* its write is never held back by a write made since its fetch.
C9_LastWriteWins ==
  /\ lastWriter # 0 => FiveFields(store) = workflowData[lastWriter]
  /\ \A i \in Inv : pc[i] = "awaitUpdate" => ENABLED UpdateWorkflowOk(i)

C9_Witness ==
  /\ \A i \in Inv : pc[i] = "returned"
  /\ version = NumInv
  /\ seen[lastWriter] = 0
  /\ \E i \in Inv : workflowData[i] # workflowData[lastWriter]

WriteStep(i) == pc[i] = "awaitUpdate" /\ pc'[i] = "returned"

\* C10 as stated: a field the caller did not supply has the same stored
\* value right after the invocation's write as right before it.
C10_AbsentFieldUnchanged ==
  [][\A i \in Inv : WriteStep(i) =>
       \A k \in FieldSet \ DOMAIN args[i] :
         Field(store', k) = Field(store, k)]_vars

\* C10 amended: a field the caller did not supply has, right after the
\* invocation's write, the value it had in the workflow the invocation
\* fetched; that is its value right before the write when no other write
\* was applied since the fetch.
C10_AbsentFieldKeepsFetched ==
  [][\A i \in Inv : WriteStep(i) =>
       \A k \in FieldSet \ DOMAIN args[i] :
         /\ Field(store', k) = Field(currentWorkflow[i], k)
         /\ seen[i] = version => Field(store', k) = Field(store, k)]_vars

C10_Witness ==
  \E i \in Inv :
    /\ pc[i] = "returned"
    /\ lastWriter = i
    /\ seen[i] < version - 1
    /\ "name" \notin DOMAIN args[i]
    /\ \E j \in Inv \ {i} : pc[j] = "returned" /\ "name" \in DOMAIN args[j]
    /\ Field(store, "name") = Field(currentWorkflow[i], "name")
====
